---- MODULE Spec2Model ----
(***************************************************************************)
(* A model of radproc's filtering code:                                    *)
(*   src/src/radproc/filtering.py  panel filters, median_filter_df,        *)
(*                                 filter_series_skipna, filter_field      *)
(*   src/scripts/dev.py            filter_field, add_mli                   *)
(*                                                                         *)
(* Numbers.  Frame (pandas) values are integers in eighths of the physical *)
(* unit (4.0 is 32, 0.375 is 3); NaN is the value NaN below.  On such      *)
(* values the float64 arithmetic of the source (the mean of two values,    *)
(* the product with an integer) is exact, and a product with the float     *)
(* constants 0.75 and 0.95 compares with them as the real product does.    *)
(* The thresholds of the source (3.5, 0.22, 4, 0.28, 0.8) are held in      *)
(* hundredths and compared with a value by GtHundredths and LtHundredths.  *)
(* Series values are exact rationals <<num, den>>, NaN is <<0, 0>>.        *)
(* Radar cells are records: a number, or the application of a library      *)
(* routine whose arithmetic is not reproduced (savgol_filter,              *)
(* uniform_filter, the scaler and the indicator formula) to its argument.  *)
(* Arrays are indexed from 0, as in the source.                            *)
(***************************************************************************)
EXTENDS Integers, Sequences, FiniteSets, TLC

VARIABLES
    ser,        \* one call of filter_series_skipna: input, filter, output
    mf,         \* one call of median_filter_df: arguments and result
    panels,     \* the Panel objects that exist, in order of creation
    cur,        \* index in panels of the panel the next filter is given
    raised,     \* the exception that ended the panel pipeline, "" if none
    lastop,     \* the last panel filter called and its arguments
    radar,      \* radar.fields of the Radar object: name -> [data, mask, meta]
    twin,       \* radar.fields of a second Radar object given the same calls
    pc,         \* statements of add_mli done, or filter_field calls made
    reads,      \* what _add_ml_indicator has read: <<field name, part>>
    before,     \* the fields of radar (r) and twin (t) when the last call started
    call        \* the last filter_field call and its arguments

vars == <<ser, mf, panels, cur, raised, lastop, radar, twin, pc, reads, before, call>>

(***************************************************************************)
(* Bounds of the model.                                                    *)
(***************************************************************************)
MaxLen == 6         \* longest profile given to filter_series_skipna
MaxCalls == 3       \* panel filters called in a row

\* the value of lastop before any panel filter was called
NoOp == [op |-> "", inp |-> 0, snap |-> <<>>, args |-> <<>>]

(***************************************************************************)
(* Generic helpers.                                                        *)
(***************************************************************************)
Min(a, b) == IF a < b THEN a ELSE b
Max(a, b) == IF a > b THEN a ELSE b
Abs(a) == IF a < 0 THEN -a ELSE a

RECURSIVE GCD(_, _)
GCD(a, b) == IF b = 0 THEN a ELSE GCD(b, a % b)

RECURSIVE SumSeq(_)
SumSeq(q) == IF q = <<>> THEN 0 ELSE Head(q) + SumSeq(Tail(q))

\* exact rationals <<n, d>>, d > 0, in lowest terms
Rat(n, d) == LET g == GCD(Abs(n), d) IN <<n \div g, d \div g>>
RNaN == <<0, 0>>
RIsNaN(x) == x[2] = 0
RAdd(x, y) == Rat(x[1] * y[2] + y[1] * x[2], x[2] * y[2])
RDivInt(x, k) == Rat(x[1], x[2] * k)

\* the sum of q[lo..hi], halving the range to keep the evaluation shallow
RECURSIVE RSumRange(_, _, _)
RSumRange(q, lo, hi) ==
    IF lo > hi THEN <<0, 1>>
    ELSE IF lo = hi THEN q[lo]
    ELSE LET mid == (lo + hi) \div 2
         IN RAdd(RSumRange(q, lo, mid), RSumRange(q, mid + 1, hi))

RSum(q) == RSumRange(q, 1, Len(q))

(***************************************************************************)
(* filter_series_skipna (filtering.py 171-181, dev.py 102-112).            *)
(* A Series is a sequence; its index is the positions 1..Len.              *)
(***************************************************************************)
ROLL_WINDOW == 40
ROLL_MIN_PERIODS == 5

\* s.rolling(40, center=True, min_periods=5).mean(): the window of position p
\* is [p - 20, p + 19] (pandas' offset is (window - 1) // 2 = 19, end
\* exclusive p + 20), cut to the series; NaN unless 5 values are valid
RollingMean(s, window, minp) ==
    [p \in 1..Len(s) |->
        LET lo == Max(1, p + ((window - 1) \div 2) + 1 - window)
            hi == Min(Len(s), p + ((window - 1) \div 2))
            valid == SelectSeq(SubSeq(s, lo, hi), LAMBDA x : ~RIsNaN(x))
        IN IF Len(valid) >= minp /\ Len(valid) > 0
           THEN RDivInt(RSum(valid), Len(valid))
           ELSE RNaN]

\* filled.dropna(): the values kept and the index labels they keep
SeriesDropNa(s) == SelectSeq(s, LAMBDA x : ~RIsNaN(x))
DropNaIndex(s) ==
    LET RECURSIVE Idx(_)
        Idx(p) == IF p > Len(s) THEN <<>>
                  ELSE IF RIsNaN(s[p]) THEN Idx(p + 1)
                  ELSE <<p>> \o Idx(p + 1)
    IN Idx(1)

\* scipy.ndimage.uniform_filter(x, size=size, mode='wrap') on a 1-D array:
\* the mean of x over the offsets -(size // 2) .. size - 1 - size // 2,
\* indices taken modulo the length
UniformFilterWrap1d(x, size) ==
    [p \in 1..Len(x) |->
        RDivInt(RSum([k \in 1..size |->
                        x[((p - 1 - (size \div 2) + (k - 1)) % Len(x)) + 1]]),
                size)]

\* the filter functions given to filter_series_skipna
SeriesFilters == {[name |-> "identity", size |-> 1],
                  [name |-> "uniform_filter", size |-> 30],
                  [name |-> "uniform_filter", size |-> 3]}

ApplySeriesFilter(f, x) ==
    IF f.name = "uniform_filter" /\ Len(x) > 0
    THEN UniformFilterWrap1d(x, f.size)
    ELSE x

\* filled[s.isna()] = filler[s.isna()]
SeriesFilled(s) ==
    LET filler == RollingMean(s, ROLL_WINDOW, ROLL_MIN_PERIODS)
    IN [p \in 1..Len(s) |-> IF RIsNaN(s[p]) THEN filler[p] ELSE s[p]]

\* pd.Series(data, index=filled.dropna().index).reindex(s.index): the value
\* of label p, NaN for a label the filtered series does not have
SeriesReindex(data, index, n) ==
    [p \in 1..n |->
        IF \E k \in 1..Len(index) : index[k] = p
        THEN data[CHOOSE k \in 1..Len(index) : index[k] = p]
        ELSE RNaN]

\* the mutant of SeriesRemasked: the closing df[s.isna()] = np.nan is left out
SeriesRemaskedSkipped(df, s) == df

\* df[s.isna()] = np.nan
SeriesRemasked(df, s) ==
    [p \in 1..Len(df) |-> IF RIsNaN(s[p]) THEN RNaN ELSE df[p]]

filter_series_skipna(s, f) ==
    LET filled == SeriesFilled(s)
        data == ApplySeriesFilter(f, SeriesDropNa(filled))
        df == SeriesReindex(data, DropNaIndex(filled), Len(s))
    IN SeriesRemasked(df, s)

SeriesValues == {RNaN, <<1, 1>>, <<3, 1>>, <<4, 1>>}

NoSeries == [s |-> <<>>, f |-> [name |-> "identity", size |-> 1],
             out |-> <<>>, done |-> FALSE]

SeriesCall ==
    /\ ~ser.done
    /\ Len(ser.s) > 0
    /\ ser' = [ser EXCEPT !.out = filter_series_skipna(ser.s, ser.f),
                          !.done = TRUE]
    /\ UNCHANGED <<mf, panels, cur, raised, lastop, radar, twin, pc, reads,
                   before, call>>

(***************************************************************************)
(* Frames (pandas DataFrame): rows are range bins, columns are profiles.   *)
(* A frame is a function row -> column -> value, rows and columns counted  *)
(* from 0.  A boolean frame has the same shape.                            *)
(***************************************************************************)
NaN == -999999
IsNaN(v) == v = NaN

NRows(A) == Cardinality(DOMAIN A)
NCols(A) == IF DOMAIN A = {} THEN 0 ELSE Cardinality(DOMAIN A[0])
Range(f) == {f[x] : x \in DOMAIN f}

\* df.isnull()
IsNull(df) == [i \in DOMAIN df |-> [j \in DOMAIN df[i] |-> IsNaN(df[i][j])]]
\* df.fillna(v)
FillNa(df, v) ==
    [i \in DOMAIN df |-> [j \in DOMAIN df[i] |-> IF IsNaN(df[i][j]) THEN v ELSE df[i][j]]]
\* df.iloc[:n]
ILocHead(df, n) == [i \in {k \in DOMAIN df : k < n} |-> df[i]]

\* radproc.NAN_REPLACEMENT, keyed by the upper-case field name
NAN_REPLACEMENT(key) == IF key = "ZH" THEN -80 ELSE 0

Upper(name) ==
    CASE name \in {"zh", "ZH"} -> "ZH"
      [] name \in {"zdr", "ZDR"} -> "ZDR"
      [] name \in {"kdp", "KDP"} -> "KDP"
      [] name \in {"rho", "RHO"} -> "RHO"
Lower(name) ==
    CASE name \in {"zh", "ZH"} -> "zh"
      [] name \in {"zdr", "ZDR"} -> "zdr"
      [] name \in {"kdp", "KDP"} -> "kdp"
      [] name \in {"rho", "RHO"} -> "rho"

(***************************************************************************)
(* scipy.ndimage.median_filter on a 2-D array.  The window of size s along *)
(* an axis covers the offsets -(s // 2) .. s - 1 - s // 2; the result is   *)
(* the element of rank (number of window elements) // 2 of the sorted      *)
(* window.  mode 'reflect' extends the array as (b a | a b c | c b), mode  *)
(* 'wrap' as (b c | a b c | a b).                                          *)
(***************************************************************************)
Offsets(s) == (0 - (s \div 2)) .. (s - 1 - (s \div 2))

ExtendIndex(i, n, mode) ==
    IF mode = "wrap" THEN i % n
    ELSE LET m == i % (2 * n) IN IF m < n THEN m ELSE 2 * n - 1 - m

Window(A, i, j, size, mode) ==
    [o \in Offsets(size[1]) \X Offsets(size[2]) |->
        A[ExtendIndex(i + o[1], NRows(A), mode)][ExtendIndex(j + o[2], NCols(A), mode)]]

\* the element of the given rank among the window's elements in ascending
\* order; W pairs every position of the window with its element
RankSelect(w, rank) ==
    LET W == {<<o, w[o]>> : o \in DOMAIN w}
    IN CHOOSE v \in {p[2] : p \in W} :
           /\ Cardinality({p \in W : p[2] < v}) <= rank
           /\ Cardinality({p \in W : p[2] <= v}) > rank

\* the values the filter can give at a cell: the median of the window; a
\* window holding NaN has no defined order (every comparison with NaN is
\* false), and the element the selection lands on is any one of the window
MedianOutcomes(A, i, j, size, mode) ==
    LET w == Window(A, i, j, size, mode)
    IN IF NaN \in Range(w) THEN Range(w)
       ELSE {RankSelect(w, (size[1] * size[2]) \div 2)}

\* median_filter on an array without NaN
median_filter(A, size, mode) ==
    [i \in DOMAIN A |-> [j \in DOMAIN A[i] |->
        RankSelect(Window(A, i, j, size, mode), (size[1] * size[2]) \div 2)]]

\* every array median_filter can return for A
MedianFilterOutcomes(A, size, mode) ==
    IF \A i \in DOMAIN A : \A j \in DOMAIN A[i] : ~IsNaN(A[i][j])
    THEN {median_filter(A, size, mode)}
    ELSE LET oc == [i \in DOMAIN A |-> [j \in DOMAIN A[i] |->
                       MedianOutcomes(A, i, j, size, mode)]]
         IN {F \in [DOMAIN A -> [DOMAIN A[0] -> UNION {Range(A[i]) : i \in DOMAIN A}]] :
                \A i \in DOMAIN A : \A j \in DOMAIN A[i] : F[i][j] \in oc[i][j]}

(***************************************************************************)
(* median_filter_df (filtering.py 120-136).  param "" is None; nullmask is *)
(* [given |-> FALSE] for None, else [given |-> TRUE, mask |-> frame].      *)
(***************************************************************************)
NoMask == [given |-> FALSE, mask |-> <<>>]
GivenMask(m) == [given |-> TRUE, mask |-> m]

\* result[nullmask] = np.nan: the mask is aligned on the result's labels, a
\* label the mask does not have keeps its value
SetNaNWhere(result, m) ==
    [i \in DOMAIN result |-> [j \in DOMAIN result[i] |->
        IF i \in DOMAIN m /\ j \in DOMAIN m[i] /\ m[i][j] THEN NaN ELSE result[i][j]]]

\* lines 122-127: the mask used and the frame handed to median_filter
MfNullMask(df, nullmask) == IF nullmask.given THEN nullmask.mask ELSE IsNull(df)
MfInput(df, param, fill) ==
    IF fill /\ param # "" THEN FillNa(df, NAN_REPLACEMENT(Upper(param))) ELSE df

\* the mutant of MfFinish: result[nullmask] = np.nan is left out
MfFinishUnmasked(result, df, param, nullmask) ==
    IF param # "" THEN FillNa(result, NAN_REPLACEMENT(Upper(param))) ELSE result

\* lines 133-136 applied to what median_filter returned
MfFinish(result, df, param, nullmask) ==
    LET r1 == IF param # "" THEN FillNa(result, NAN_REPLACEMENT(Upper(param)))
              ELSE result
    IN SetNaNWhere(r1, MfNullMask(df, nullmask))

\* every frame median_filter_df can return
MedianFilterDfOutcomes(df, param, fill, nullmask, size) ==
    {MfFinish(r, df, param, nullmask) :
        r \in MedianFilterOutcomes(MfInput(df, param, fill), size, "reflect")}

\* median_filter_df where it is a function of its arguments (param given
\* and fill=True, as in every call of this file: no NaN reaches the filter)
median_filter_df(df, param, nullmask, size) ==
    MfFinish(median_filter(MfInput(df, param, TRUE), size, "reflect"),
             df, param, nullmask)

\* the frames given to median_filter_df: MfRows rows of one column
MfRows == 3
MfCols == 0..0
MfValues == {NaN, 8, 32}
MfFrames == [0..(MfRows - 1) -> [MfCols -> MfValues]]
MfMasks(df) ==
    {NoMask,
     GivenMask([i \in DOMAIN df |-> [j \in DOMAIN df[i] |-> FALSE]]),
     GivenMask([i \in DOMAIN df |-> [j \in DOMAIN df[i] |-> i = 0]]),
     GivenMask(IsNull(df))}
MfSizes == {<<3, 1>>, <<2, 2>>}

NoMf == [df |-> <<>>, param |-> "", fill |-> TRUE, nullmask |-> NoMask,
         size |-> <<1, 1>>, out |-> <<>>, done |-> FALSE]

MedianFilterDfCall ==
    /\ ~mf.done
    /\ mf.df # <<>>
    /\ \E r \in MedianFilterDfOutcomes(mf.df, mf.param, mf.fill, mf.nullmask, mf.size) :
          mf' = [mf EXCEPT !.out = r, !.done = TRUE]
    /\ UNCHANGED <<ser, panels, cur, raised, lastop, radar, twin, pc, reads,
                   before, call>>

InitMedianDf ==
    /\ \E df \in MfFrames : \E param \in {"", "zdr", "zh"} : \E fill \in BOOLEAN :
         \E nm \in MfMasks(df) : \E size \in MfSizes :
            mf = [df |-> df, param |-> param, fill |-> fill, nullmask |-> nm,
                  size |-> size, out |-> <<>>, done |-> FALSE]
    /\ ser = NoSeries /\ panels = <<>> /\ cur = 0 /\ raised = "" /\ lastop = NoOp
    /\ radar = 0 /\ twin = 0 /\ pc = 0 /\ reads = {} /\ before = 0 /\ call = 0

NextMedianDf == MedianFilterDfCall

SpecMedianDf == InitMedianDf /\ [][NextMedianDf]_vars

(***************************************************************************)
(* Panels (pandas Panel): a function item name -> frame.  The Panel        *)
(* objects live in a heap (a sequence); a function of the source takes     *)
(* and returns a reference, so that a write to a shared object shows.      *)
(***************************************************************************)
PanelSet(pn, key, frame) ==
    [k \in DOMAIN pn \cup {key} |-> IF k = key THEN frame ELSE pn[k]]

\* pn.copy(): a new object holding the same items
PanelCopy(h, i) == [heap |-> Append(h, h[i]), ref |-> Len(h) + 1]

\* MEDIAN_WINDOWS (filtering.py 12-15)
MEDIAN_WINDOWS(key) ==
    CASE key = "ZH" -> <<7, 1>>
      [] key = "KDP" -> <<19, 1>>
      [] key = "ZDR" -> <<11, 1>>
      [] key = "RHO" -> <<25, 1>>
MedianKeys == <<"ZH", "KDP", "ZDR", "RHO">>

\* the mutant of CreateIfMissing: the lower-case field is reset to the raw
\* field whether or not it exists
CreateAlways(pn, key) == PanelSet(pn, Lower(key), pn[Upper(key)])

\* lines 28-31 for one key: the item is added only when it is missing
CreateIfMissing(pn, key) ==
    IF Lower(key) \notin DOMAIN pn THEN PanelSet(pn, Lower(key), pn[Upper(key)])
    ELSE pn

RECURSIVE CreateAll(_, _)
CreateAll(pn, keys) ==
    IF keys = <<>> THEN pn ELSE CreateAll(CreateIfMissing(pn, Head(keys)), Tail(keys))

\* create_filtered_fields_if_missing (filtering.py 23-35)
create_filtered_fields_if_missing(h, i, keys) ==
    LET c == PanelCopy(h, i)
    IN [heap |-> [c.heap EXCEPT ![c.ref] = CreateAll(c.heap[c.ref], keys)],
        ref |-> c.ref]

\* value > threshold, value < threshold: v in eighths, h in hundredths
GtHundredths(v, h) == 25 * v > 2 * h
LtHundredths(v, h) == 25 * v < 2 * h

\* df > threshold, df < limit: a comparison with NaN is False
FrameGt(df, thr) ==
    [i \in DOMAIN df |-> [j \in DOMAIN df[i] |->
        ~IsNaN(df[i][j]) /\ GtHundredths(df[i][j], thr)]]
FrameLt(df, lim) ==
    [i \in DOMAIN df |-> [j \in DOMAIN df[i] |->
        ~IsNaN(df[i][j]) /\ LtHundredths(df[i][j], lim)]]

\* df.mask(cond)
FrameMask(df, cond) ==
    [i \in DOMAIN df |-> [j \in DOMAIN df[i] |-> IF cond[i][j] THEN NaN ELSE df[i][j]]]

(***************************************************************************)
(* fltr_median (filtering.py 59-70)                                        *)
(***************************************************************************)
RECURSIVE MedianLoop(_, _, _, _)
MedianLoop(pn_out, new, nullmask, keys) ==
    IF keys = <<>> THEN pn_out
    ELSE LET field == Lower(Head(keys))
             df == median_filter_df(new[field], field, GivenMask(nullmask),
                                    MEDIAN_WINDOWS(Upper(field)))
         IN MedianLoop(PanelSet(pn_out, field, df), new, nullmask, Tail(keys))

fltr_median(h, i) ==
    LET a == PanelCopy(h, i)
        b == create_filtered_fields_if_missing(a.heap, a.ref, MedianKeys)
        new == b.heap[b.ref]
        nullmask == IsNull(b.heap[i]["ZH"])
    IN [heap |-> [b.heap EXCEPT ![a.ref] =
                     MedianLoop(b.heap[a.ref], new, nullmask, MedianKeys)],
        ref |-> a.ref, raised |-> ""]

(***************************************************************************)
(* fltr_nonmet (filtering.py 73-79), default arguments                     *)
(***************************************************************************)
\* 0.8, in hundredths
RHO_LIMIT == 80
NonmetFields == <<"ZH", "ZDR", "KDP">>

\* the mutant of NonmetCond: the raw RHO is compared instead of rho
NonmetCondRaw(pn_out) == FrameLt(pn_out["RHO"], RHO_LIMIT)

\* cond = pn_out['rho'] < 0.8
NonmetCond(pn_out) == FrameLt(pn_out["rho"], RHO_LIMIT)

RECURSIVE NonmetLoop(_, _, _)
NonmetLoop(pn_out, cond, fields) ==
    IF fields = <<>> THEN pn_out
    ELSE LET f == Lower(Head(fields))
         IN NonmetLoop(PanelSet(pn_out, f, FrameMask(pn_out[f], cond)), cond,
                       Tail(fields))

fltr_nonmet(h, i) ==
    LET b == create_filtered_fields_if_missing(h, i, NonmetFields)
        pn_out == b.heap[b.ref]
    IN IF "rho" \notin DOMAIN pn_out
       THEN [heap |-> b.heap, ref |-> i, raised |-> "KeyError"]
       ELSE [heap |-> [b.heap EXCEPT ![b.ref] =
                          NonmetLoop(pn_out, NonmetCond(pn_out), NonmetFields)],
             ref |-> b.ref, raised |-> ""]

(***************************************************************************)
(* fltr_ground_clutter_median (filtering.py 38-56)                         *)
(***************************************************************************)
\* ground_threshold = dict(ZDR=3.5, KDP=0.22), in hundredths
GROUND_THRESHOLD(key) == IF key = "ZDR" THEN 350 ELSE 22
GroundKeys == <<"zdr", "kdp">>

\* the mutant of GcSelection: selection.iloc[crop_px:] = False is left out
GcSelectionUncropped(df, thr, crop_px) ==
    LET s0 == FrameGt(df, thr)
        s1 == [i \in DOMAIN s0 |-> [j \in DOMAIN s0[i] |->
                  IF s0[crop_px][j] THEN FALSE ELSE s0[i][j]]]
    IN [i \in DOMAIN s1 |-> [j \in DOMAIN s1[i] |->
          IF s1[0][j] THEN TRUE ELSE s1[i][j]]]

\* lines 49-52: the cells to replace
GcSelection(df, thr, crop_px) ==
    LET s0 == FrameGt(df, thr)
        \* selection.loc[:, selection.iloc[crop_px]] = False
        s1 == [i \in DOMAIN s0 |-> [j \in DOMAIN s0[i] |->
                  IF s0[crop_px][j] THEN FALSE ELSE s0[i][j]]]
        \* selection.loc[:, selection.iloc[0]] = True
        s2 == [i \in DOMAIN s1 |-> [j \in DOMAIN s1[i] |->
                  IF s1[0][j] THEN TRUE ELSE s1[i][j]]]
    \* selection.iloc[crop_px:] = False
    IN [i \in DOMAIN s2 |-> [j \in DOMAIN s2[i] |-> i < crop_px /\ s2[i][j]]]

\* lines 53-54: df[selection] = new_values[selection]; a selected cell of a
\* row new_values does not have becomes NaN
GcReplace(df, selection, new_values) ==
    [i \in DOMAIN df |-> [j \in DOMAIN df[i] |->
        IF selection[i][j]
        THEN IF i \in DOMAIN new_values THEN new_values[i][j] ELSE NaN
        ELSE df[i][j]]]

\* lines 45-55 for one field; pn is the panel the caller passed
GcMedianField(pn_new, pn, field, heigth_px, crop_px, size) ==
    LET view == ILocHead(pn_new[field], heigth_px)
        fltrd == median_filter_df(view, field, GivenMask(IsNull(pn["zh"])), size)
        new_values == ILocHead(fltrd, crop_px)
        selection == GcSelection(pn_new[field], GROUND_THRESHOLD(Upper(field)), crop_px)
    IN PanelSet(pn_new, field, GcReplace(pn_new[field], selection, new_values))

RECURSIVE GcMedianLoop(_, _, _, _, _, _)
GcMedianLoop(pn_new, pn, keys, heigth_px, crop_px, size) ==
    IF keys = <<>> THEN pn_new
    ELSE GcMedianLoop(GcMedianField(pn_new, pn, Head(keys), heigth_px, crop_px, size),
                      pn, Tail(keys), heigth_px, crop_px, size)

fltr_ground_clutter_median(h, i, heigth_px, crop_px, size) ==
    LET a == PanelCopy(h, i)
        b == create_filtered_fields_if_missing(a.heap, a.ref, GroundKeys)
    IN IF "zh" \notin DOMAIN b.heap[i]
       THEN [heap |-> b.heap, ref |-> i, raised |-> "KeyError"]
       ELSE [heap |-> [b.heap EXCEPT ![b.ref] =
                          GcMedianLoop(b.heap[b.ref], b.heap[i], GroundKeys,
                                       heigth_px, crop_px, size)],
             ref |-> b.ref, raised |-> ""]

(***************************************************************************)
(* fltr_ground_clutter (filtering.py 89-117), the legacy filter.  The      *)
(* source compares in float64: 0.75*4 is 3.0 and 0.75*0.28 is              *)
(* 0.21000000000000002; a median of values in eighths is a multiple of     *)
(* 1/16 and lies on the same side of either as of 3 and 0.21, and          *)
(* 0.95*med rounds to the value in eighths it equals in real arithmetic.   *)
(***************************************************************************)
\* threshold = dict(ZDR=4, KDP=0.28), in hundredths
LEGACY_THRESHOLD(key) == IF key = "ZDR" THEN 400 ELSE 28

\* twice the median of the valid values of a column head (pandas' median
\* skips NaN and averages the two middle values of an even count)
Median2(valid) ==
    LET m == Len(valid)
    IN IF m % 2 = 1 THEN 2 * RankSelect(valid, m \div 2)
       ELSE RankSelect(valid, (m \div 2) - 1) + RankSelect(valid, m \div 2)

MinAbs(valid) ==
    CHOOSE v \in {Abs(valid[k]) : k \in DOMAIN valid} :
        \A k \in DOMAIN valid : v <= Abs(valid[k])

\* lines 100-116 for one column col (row -> value): the column after the
\* assignment through view, were it to reach the panel
RECURSIVE LegacyColumn(_, _, _, _, _, _)
LegacyColumn(col, winsize, thr, nanrep, window, ratio_limit) ==
    IF winsize > window THEN col
    ELSE LET n == Min(winsize, Cardinality(DOMAIN col))
             dat == [k \in 1..n |-> col[k - 1]]
             valid == SelectSeq(dat, LAMBDA v : ~IsNaN(v))
             med2 == Median2(valid)
             hasnull == \E k \in 1..n : IsNaN(dat[k])
         IN IF IsNaN(col[0]) THEN col
            \* med < 0.75*threshold: med2 / 16 < (3 / 4) * (thr / 100)
            ELSE IF 25 * med2 < 3 * thr THEN col
            \* med > ratio_limit*dat.abs().min()
            ELSE IF med2 > 2 * ratio_limit * MinAbs(valid)
                 \* view > 0.95*med: col / 8 > (19 / 20) * (med2 / 16)
                 THEN [i \in DOMAIN col |->
                         IF i < window /\ ~IsNaN(col[i]) /\ 40 * col[i] > 19 * med2
                         THEN nanrep ELSE col[i]]
            \* dat.isnull().any() and med > threshold
            ELSE IF hasnull /\ 25 * med2 > 4 * thr
                 THEN [i \in DOMAIN col |->
                         IF i < window /\ ~IsNaN(col[i]) /\ GtHundredths(col[i], thr)
                         THEN nanrep ELSE col[i]]
            ELSE LegacyColumn(col, winsize + 1, thr, nanrep, window, ratio_limit)

LegacyField(df, key, window, ratio_limit) ==
    LET newcol(j) == LegacyColumn([i \in DOMAIN df |-> df[i][j]], 2,
                                  LEGACY_THRESHOLD(key), NAN_REPLACEMENT(key),
                                  window, ratio_limit)
    IN [i \in DOMAIN df |-> [j \in DOMAIN df[i] |-> newcol(j)[i]]]

\* view = pn[field, :, dt].iloc[:window]; view[...] = ... is an assignment
\* through a chained selection: it reaches pn when the selection is a view
\* of the panel's block (through = TRUE) and is lost when it is a copy
fltr_ground_clutter(h, i, window, ratio_limit, through) ==
    LET a == PanelCopy(h, i)
        b == create_filtered_fields_if_missing(a.heap, a.ref, GroundKeys)
        pn == b.heap[b.ref]
        out == [k \in DOMAIN pn |->
                   IF through /\ k \in {"zdr", "kdp"}
                   THEN LegacyField(pn[k], Upper(k), window, ratio_limit)
                   ELSE pn[k]]
    IN [heap |-> [b.heap EXCEPT ![b.ref] = out], ref |-> b.ref, raised |-> ""]

(***************************************************************************)
(* The panel pipeline: filters called one after the other, each given the  *)
(* panel the previous one returned.                                        *)
(***************************************************************************)
Col4(a, b, c, d) == [i \in 0..3 |-> CASE i = 0 -> a [] i = 1 -> b [] i = 2 -> c [] i = 3 -> d]
Frame2(c0, c1) == [i \in DOMAIN c0 |-> [j \in 0..1 |-> IF j = 0 THEN c0[i] ELSE c1[i]]]

\* ZDR 4.0, 1.0, 5.0, 9.0, 0.5, 0.125; KDP 0.375, 0.125; ZH 10.0 .. 20.0;
\* RHO 1.0, 0.875, 0.75, 0.625, 0.5
ZdrColumns == {Col4(32, 8, 8, 32), Col4(8, 8, 32, 32),
               Col4(32, 8, 32, 8), Col4(NaN, 40, 8, 8),
               Col4(72, 8, NaN, 4), Col4(72, 1, 8, 8)}
KdpFrames == {Frame2(Col4(3, 1, 1, 3), Col4(3, 1, 1, 1)),
              Frame2(Col4(3, 1, 3, NaN), Col4(1, 1, 1, 1))}
ZhFrames == {Frame2(Col4(80, 160, NaN, 120), Col4(NaN, 80, 96, 104)),
             Frame2(Col4(80, 160, 120, 120), Col4(40, 80, NaN, 104))}
RhoFrames == {Frame2(Col4(8, 5, 7, 7), Col4(NaN, 6, 8, 8)),
              Frame2(Col4(8, 8, 4, 8), Col4(7, 8, 8, 5))}

RawKeys == {"ZH", "ZDR", "KDP", "RHO"}
\* arguments of fltr_ground_clutter_median: <<heigth_px, crop_px, size>>
GcMedianArgs == {<<3, 2, <<2, 2>>>>, <<3, 1, <<3, 1>>>>}
\* arguments of fltr_ground_clutter: <<window, ratio_limit>>
GcLegacyArgs == {<<3, 8>>}

\* the caller keeps the panels it had and the one returned
PanelReturn(res, op, args) ==
    LET base == SubSeq(res.heap, 1, Len(panels))
    IN /\ lastop' = [op |-> op, inp |-> cur, snap |-> panels[cur], args |-> args]
       /\ raised' = res.raised
       /\ IF res.raised = "" /\ res.ref > Len(panels)
          THEN panels' = Append(base, res.heap[res.ref]) /\ cur' = Len(panels) + 1
          ELSE panels' = base /\ cur' = res.ref
       /\ UNCHANGED <<ser, mf, radar, twin, pc, reads, before, call>>

CanCall == raised = "" /\ Len(panels) <= MaxCalls

CallFltrMedian ==
    /\ CanCall
    /\ PanelReturn(fltr_median(panels, cur), "fltr_median", <<>>)

CallFltrNonmet ==
    /\ CanCall
    /\ PanelReturn(fltr_nonmet(panels, cur), "fltr_nonmet", <<>>)

CallFltrGroundClutterMedian ==
    /\ CanCall
    /\ \E a \in GcMedianArgs :
          PanelReturn(fltr_ground_clutter_median(panels, cur, a[1], a[2], a[3]),
                      "fltr_ground_clutter_median", a)

CallFltrGroundClutter ==
    /\ CanCall
    /\ \E a \in GcLegacyArgs : \E through \in BOOLEAN :
          PanelReturn(fltr_ground_clutter(panels, cur, a[1], a[2], through),
                      "fltr_ground_clutter", a)

InitPanel ==
    /\ \E c0 \in ZdrColumns : \E c1 \in ZdrColumns :
         \E kdp \in KdpFrames : \E zh \in ZhFrames : \E rho \in RhoFrames :
            panels = << [k \in RawKeys |->
                           CASE k = "ZH" -> zh [] k = "ZDR" -> Frame2(c0, c1)
                             [] k = "KDP" -> kdp [] k = "RHO" -> rho] >>
    /\ cur = 1 /\ raised = "" /\ lastop = NoOp
    /\ ser = NoSeries /\ mf = NoMf
    /\ radar = 0 /\ twin = 0 /\ pc = 0 /\ reads = {} /\ before = 0 /\ call = 0

NextPanel ==
    \/ CallFltrMedian
    \/ CallFltrNonmet
    \/ CallFltrGroundClutterMedian
    \/ CallFltrGroundClutter

SpecPanel == InitPanel /\ [][NextPanel]_vars

(***************************************************************************)
(* The Radar object (pyart): radar.fields maps a field name to a masked    *)
(* array over (ray, gate) and its metadata; the rays of a sweep are        *)
(* consecutive.  A field name is the sequence of its characters.           *)
(*                                                                         *)
(* A cell is a number, [op |-> "num", v |-> value], or the application of  *)
(* a library routine to the array it was given: op names the routine, par *)
(* its parameters, v the position of the cell and args the cells of the    *)
(* argument.  Such a value is not computed any further.                    *)
(***************************************************************************)
FLTRD_SUFFIX == <<"_", "f", "i", "l", "t", "e", "r", "e", "d">>

\* radproc.aliases
zh == <<"z", "h">>
zdr == <<"z", "d", "r">>
rhohv == <<"r", "h", "o">>
mli == <<"m", "l", "i">>

\* radar.sweep_number['data'] and the ray indices of each sweep
sweep_number == <<0, 1>>
sweep_start_ray_index == <<0, 1>>
sweep_end_ray_index == <<0, 2>>

\* radproc.radar.zgates_per_sweep(radar): a gate count for each sweep
zgates_per_sweep == <<1, 0>>

Num(v) == [op |-> "num", par |-> <<>>, v |-> v, args |-> <<>>]
IsNum(c) == c.op = "num"
AllNum(A) == \A i \in DOMAIN A : \A j \in DOMAIN A[i] : IsNum(A[i][j])

Flatten(A) ==
    [k \in 1..(NRows(A) * NCols(A)) |-> A[(k - 1) \div NCols(A)][(k - 1) % NCols(A)]]

\* the array a library routine returns for A, cell by cell
Applied(op, par, A) ==
    [i \in DOMAIN A |-> [j \in DOMAIN A[i] |->
        [op |-> op, par |-> par, v |-> i * NCols(A) + j, args |-> Flatten(A)]]]

AllFalse(A) == [i \in DOMAIN A |-> [j \in DOMAIN A[i] |-> FALSE]]
MaskAny(m) == \E i \in DOMAIN m : \E j \in DOMAIN m[i] : m[i][j]
MaskOr(m1, m2) == [i \in DOMAIN m1 |-> [j \in DOMAIN m1[i] |-> m1[i][j] \/ m2[i][j]]]

\* radar.get_field(n, name): the rays of sweep n, a masked array
get_field(fields, n, name) ==
    LET lo == sweep_start_ray_index[n + 1]
        hi == sweep_end_ray_index[n + 1]
    IN [data |-> [i \in 0..(hi - lo) |-> fields[name].data[lo + i]],
        mask |-> [i \in 0..(hi - lo) |-> fields[name].mask[lo + i]],
        ma |-> TRUE]

\* sdata.filled(0): a plain array, 0 in the masked cells
Filled(x, v) ==
    [data |-> [i \in DOMAIN x.data |-> [j \in DOMAIN x.data[i] |->
                  IF x.mask[i][j] THEN Num(v) ELSE x.data[i][j]]],
     mask |-> AllFalse(x.data), ma |-> FALSE]

\* np.ma.array(x, mask=mask): a masked array; the mask of an x that is a
\* masked array is kept and combined (keep_mask=True)
MaArray(x, mask) ==
    [data |-> x.data, mask |-> IF x.ma THEN MaskOr(x.mask, mask) ELSE mask, ma |-> TRUE]

\* the arrays of a list stacked along the ray axis
RECURSIVE ConcatRows(_)
ConcatRows(parts) ==
    IF Len(parts) = 1 THEN parts[1]
    ELSE LET A == parts[1]
             B == ConcatRows(Tail(parts))
         IN [i \in 0..(NRows(A) + NRows(B) - 1) |->
                IF i < NRows(A) THEN A[i] ELSE B[i - NRows(A)]]

\* np.ma.concatenate(data): data and masks are stacked
MaConcatenate(parts) ==
    [data |-> ConcatRows([k \in 1..Len(parts) |-> parts[k].data]),
     mask |-> ConcatRows([k \in 1..Len(parts) |-> parts[k].mask]),
     ma |-> TRUE]

\* np.concatenate(data) of masked arrays: a masked array of the stacked data;
\* the masks of the parts are not preserved
NpConcatenate(parts) ==
    LET d == ConcatRows([k \in 1..Len(parts) |-> parts[k].data])
    IN [data |-> d, mask |-> AllFalse(d), ma |-> TRUE]

(***************************************************************************)
(* The filter functions given to filter_field.  A filter is a record       *)
(* [fn, par]: scipy's median_filter (par: size, the same along both axes), *)
(* uniform_filter and savgol_filter, which return plain arrays;            *)
(* np.ma.masked_greater (par: value) and fltr_ignore_head (par: n), which  *)
(* return masked arrays.  mode is 'wrap' as in every call of add_mli.      *)
(***************************************************************************)
MedianOfCells(A, size) ==
    LET ints == [i \in DOMAIN A |-> [j \in DOMAIN A[i] |-> A[i][j].v]]
        med == median_filter(ints, <<size, size>>, "wrap")
    IN [i \in DOMAIN A |-> [j \in DOMAIN A[i] |-> Num(med[i][j])]]

\* fltr_ignore_head (filtering.py 165-168): arro.mask[:, :n] = True
fltr_ignore_head(x, n) ==
    [data |-> x.data,
     mask |-> [i \in DOMAIN x.mask |-> [j \in DOMAIN x.mask[i] |-> x.mask[i][j] \/ j < n]],
     ma |-> TRUE]

\* np.ma.masked_greater(x, value): masked where x > value, and where x is
\* masked when x is a masked array
masked_greater(x, value) ==
    [data |-> x.data,
     mask |-> [i \in DOMAIN x.data |-> [j \in DOMAIN x.data[i] |->
                  \/ x.ma /\ x.mask[i][j]
                  \/ IsNum(x.data[i][j]) /\ x.data[i][j].v > value]],
     ma |-> TRUE]

\* filterfun(field_data, **kws)
ApplyFilter(f, x) ==
    CASE f.fn = "median_filter" ->
           [data |-> IF AllNum(x.data) THEN MedianOfCells(x.data, f.par[1])
                     ELSE Applied(f.fn, f.par, x.data),
            mask |-> AllFalse(x.data), ma |-> FALSE]
      [] f.fn \in {"uniform_filter", "savgol_filter"} ->
           [data |-> Applied(f.fn, f.par, x.data),
            mask |-> AllFalse(x.data), ma |-> FALSE]
      [] f.fn = "masked_greater" -> masked_greater(x, f.par[1])
      [] f.fn = "fltr_ignore_head" -> fltr_ignore_head(x, f.par[1])

\* fltr_ignore_head on a plain array: it has no attribute mask
\* (AttributeError); savgol_filter (par: window_length, polyorder, axis 1,
\* mode 'interp') on rays of fewer than window_length gates: ValueError
FilterRaises(f, x) ==
    \/ f.fn = "fltr_ignore_head" /\ ~x.ma
    \/ f.fn = "savgol_filter" /\ f.par[1] > NCols(x.data)

\* the mutant of OutputName: the suffix is appended to every name
OutputNameAlwaysSuffixed(name) == name \o FLTRD_SUFFIX

\* the name filter_field writes when it is given none
\* (filtering.py 214-217, dev.py 77-80)
EndsWithSuffix(name) ==
    LET n == Len(name)
        k == Min(n, Len(FLTRD_SUFFIX))
    IN SubSeq(name, n - k + 1, n) = FLTRD_SUFFIX

OutputName(name) == IF EndsWithSuffix(name) THEN name ELSE name \o FLTRD_SUFFIX

\* radar.add_field_like(existing, name, data, replace_existing=True): the
\* metadata of the existing field with the new data
add_field_like(fields, existing, name, x) ==
    [k \in DOMAIN fields \cup {name} |->
        IF k = name THEN [data |-> x.data, mask |-> x.mask, meta |-> fields[existing].meta]
        ELSE fields[k]]

(***************************************************************************)
(* filter_field of filtering.py (184-219)                                  *)
(***************************************************************************)
\* _ma_filter (184-192)
ma_filter(field_data, f) ==
    LET filtered == ApplyFilter(f, field_data)
    IN IF filtered.ma THEN filtered
       ELSE IF field_data.ma THEN MaArray(filtered, field_data.mask)
       ELSE MaArray(filtered, AllFalse(filtered.data))

\* lines 202-208: the array and the filter of sweep n
SweepData(fields, name, n, filled) ==
    IF filled THEN Filled(get_field(fields, n, name), 0) ELSE get_field(fields, n, name)
SweepFilter(f, zgate_kw, n) ==
    IF zgate_kw THEN [f EXCEPT !.par = <<zgates_per_sweep[n + 1]>>] ELSE f

\* lines 211-212
RemaskIfUnmasked(filtered, mask) ==
    IF ~MaskAny(filtered.mask) THEN MaArray(filtered, mask) ELSE filtered

\* field_name "" stands for None
FilterFieldRaises(fields, name, filled, zgate_kw, f) ==
    \E k \in 1..Len(sweep_number) :
        FilterRaises(SweepFilter(f, zgate_kw, sweep_number[k]),
                     SweepData(fields, name, sweep_number[k], filled))

filter_field(fields, existing_field_name, field_name, filled, zgate_kw, f) ==
    LET data == [k \in 1..Len(sweep_number) |->
                    ma_filter(SweepData(fields, existing_field_name, sweep_number[k], filled),
                              SweepFilter(f, zgate_kw, sweep_number[k]))]
        filtered == RemaskIfUnmasked(MaConcatenate(data),
                                     fields[existing_field_name].mask)
        out == IF field_name = <<>> THEN OutputName(existing_field_name) ELSE field_name
    IN add_field_like(fields, existing_field_name, out, filtered)

(***************************************************************************)
(* filter_field of dev.py (67-81)                                          *)
(***************************************************************************)
\* field_filter (67-69)
field_filter(field_data, f) == MaArray(ApplyFilter(f, field_data), field_data.mask)

\* the filter raises for some sweep: nothing is written
DevFilterFieldRaises(fields, fieldname, f) ==
    \E k \in 1..Len(sweep_number) :
        FilterRaises(f, get_field(fields, sweep_number[k], fieldname))

dev_filter_field(fields, fieldname, f) ==
    LET parts == [k \in 1..Len(sweep_number) |->
                    field_filter(get_field(fields, sweep_number[k], fieldname), f)]
        filtered == MaArray(NpConcatenate(parts), fields[fieldname].mask)
    IN add_field_like(fields, fieldname, OutputName(fieldname), filtered)

(***************************************************************************)
(* Calls of filter_field on a radar volume of two sweeps (one ray, then    *)
(* two rays) of two gates.  twin is a second volume that differs from      *)
(* radar in the rays of one sweep only and receives the same calls; before *)
(* holds the fields of both as they were when the last call began, and pc  *)
(* counts the calls.                                                       *)
(***************************************************************************)
MaxFieldCalls == 1

Row2(a, b) == [j \in 0..1 |-> IF j = 0 THEN a ELSE b]

\* a ray: its data and its mask
RayValues ==
    { [data |-> Row2(Num(1), Num(9)), mask |-> Row2(FALSE, FALSE)],
      [data |-> Row2(Num(1), Num(2)), mask |-> Row2(TRUE, FALSE)],
      [data |-> Row2(Num(1), Num(1)), mask |-> Row2(FALSE, FALSE)] }

FieldOfRays(r0, r1, r2, meta) ==
    [data |-> [i \in 0..2 |-> CASE i = 0 -> r0.data [] i = 1 -> r1.data [] i = 2 -> r2.data],
     mask |-> [i \in 0..2 |-> CASE i = 0 -> r0.mask [] i = 1 -> r1.mask [] i = 2 -> r2.mask],
     meta |-> meta]

\* what an earlier run left in the filtered field
StaleField ==
    LET r == [data |-> Row2(Num(7), Num(7)), mask |-> Row2(FALSE, TRUE)]
    IN FieldOfRays(r, r, r, "zdr")

OUT_NAME == <<"o", "u", "t">>

FieldFilters ==
    { [fn |-> "median_filter", par |-> <<3>>],
      [fn |-> "uniform_filter", par |-> <<30, 1>>],
      [fn |-> "masked_greater", par |-> <<5>>],
      [fn |-> "fltr_ignore_head", par |-> <<1>>] }

NoCall == [version |-> "", name |-> <<>>, field_name |-> <<>>, filled |-> FALSE,
           zgate_kw |-> FALSE, f |-> [fn |-> "", par |-> <<>>], raised |-> FALSE]

\* the field a call wrote
Written(c) == IF c.field_name = <<>> THEN OutputName(c.name) ELSE c.field_name

\* filter_field(radar, name, field_name=..., filled=..., zgate_kw=..., filterfun=f, ...)
\* of filtering.py, on both volumes
FilterFieldCall ==
    /\ pc < MaxFieldCalls
    /\ \E name \in DOMAIN radar : \E f \in FieldFilters : \E filled \in BOOLEAN :
         \E zgate_kw \in {z \in BOOLEAN : z => f.fn = "fltr_ignore_head"} :
           \E field_name \in {o \in {<<>>, OUT_NAME} : o # <<>> => f.fn = "median_filter"} :
             LET raises == FilterFieldRaises(radar, name, filled, zgate_kw, f)
             IN /\ before' = [r |-> radar, t |-> twin]
                /\ call' = [version |-> "filtering", name |-> name,
                            field_name |-> field_name, filled |-> filled,
                            zgate_kw |-> zgate_kw, f |-> f, raised |-> raises]
                /\ IF raises THEN UNCHANGED <<radar, twin>>
                   ELSE /\ radar' = filter_field(radar, name, field_name, filled, zgate_kw, f)
                        /\ twin' = filter_field(twin, name, field_name, filled, zgate_kw, f)
    /\ pc' = pc + 1
    /\ UNCHANGED <<ser, mf, panels, cur, raised, lastop, reads>>

\* filter_field(radar, name, filterfun=f, ...) of dev.py, on both volumes
DevFilterFieldCall ==
    /\ pc < MaxFieldCalls
    /\ \E name \in DOMAIN radar : \E f \in FieldFilters :
         /\ before' = [r |-> radar, t |-> twin]
         /\ call' = [version |-> "dev", name |-> name, field_name |-> <<>>,
                     filled |-> FALSE, zgate_kw |-> FALSE, f |-> f, raised |-> FALSE]
         /\ radar' = dev_filter_field(radar, name, f)
         /\ twin' = dev_filter_field(twin, name, f)
    /\ pc' = pc + 1
    /\ UNCHANGED <<ser, mf, panels, cur, raised, lastop, reads>>

InitField ==
    /\ \E r0 \in RayValues : \E r1 \in RayValues : \E r2 \in RayValues :
         \E stale \in BOOLEAN : \E n \in 0..1 : \E a \in RayValues :
            LET fields(x0, x1, x2) ==
                    [k \in {zdr} \cup (IF stale THEN {zdr \o FLTRD_SUFFIX} ELSE {}) |->
                        IF k = zdr THEN FieldOfRays(x0, x1, x2, "zdr") ELSE StaleField]
            IN /\ radar = fields(r0, r1, r2)
               /\ twin = IF n = 0 THEN fields(a, r1, r2) ELSE fields(r0, r1, a)
    /\ before = [r |-> radar, t |-> twin]
    /\ call = NoCall /\ pc = 0 /\ reads = {}
    /\ ser = NoSeries /\ mf = NoMf /\ panels = <<>> /\ cur = 0 /\ raised = ""
    /\ lastop = NoOp

NextField ==
    \/ FilterFieldCall
    \/ DevFilterFieldCall

SpecField == InitField /\ [][NextField]_vars

(***************************************************************************)
(* add_mli of dev.py (115-121), one step for each of its five statements;  *)
(* pc is the number of statements done.  reads collects what               *)
(* _add_ml_indicator read of the fields: <<name, "data">> or               *)
(* <<name, "meta">>.  before.r holds the fields as add_mli found them, and *)
(* raised the exception add_mli ended with, "" if none.  The volumes have  *)
(* rays of 2 gates or of MliGates gates, as many as the window of the      *)
(* last filter.                                                            *)
(***************************************************************************)
MliGates == 60
\* RadarDataScaler(field_type).fit_transform(copy): element by element, the
\* mask kept
scale_field(fields, field, field_type) ==
    LET x == fields[field]
        op == IF field_type = zh THEN "scale_zh" ELSE "scale_zdr"
    IN [data |-> [i \in DOMAIN x.data |-> [j \in DOMAIN x.data[i] |->
                    [op |-> op, par |-> <<>>, v |-> 0, args |-> <<x.data[i][j]>>]]],
        mask |-> x.mask, ma |-> TRUE]

\* radproc.ml.ind(zdr_scaled, zh_scaled, rho): element by element, masked
\* where any of the three is masked
ind(zdr_scaled, zh_scaled, rho) ==
    [data |-> [i \in DOMAIN rho.data |-> [j \in DOMAIN rho.data[i] |->
                 [op |-> "ind", par |-> <<>>, v |-> 0,
                  args |-> <<zdr_scaled.data[i][j], zh_scaled.data[i][j], rho.data[i][j]>>]]],
     mask |-> MaskOr(MaskOr(zdr_scaled.mask, zh_scaled.mask), rho.mask),
     ma |-> TRUE]

\* the mutant of MlIndicatorInputs: ZDR is read from the raw field
MlIndicatorInputsRaw ==
    [zh |-> zh, zdr |-> zdr, rho |-> rhohv \o FLTRD_SUFFIX]

\* the fields _ml_indicator reads (dev.py 52-54)
MlIndicatorInputs ==
    [zh |-> zh, zdr |-> zdr \o FLTRD_SUFFIX, rho |-> rhohv \o FLTRD_SUFFIX]

\* _ml_indicator (51-55)
ml_indicator(fields) ==
    LET zh_scaled == scale_field(fields, MlIndicatorInputs.zh, zh)
        zdr_scaled == scale_field(fields, MlIndicatorInputs.zdr, zdr)
        rho == [data |-> fields[MlIndicatorInputs.rho].data,
                mask |-> fields[MlIndicatorInputs.rho].mask, ma |-> TRUE]
    IN ind(zdr_scaled, zh_scaled, rho)

\* _add_ml_indicator (58-64): the copy of the zh field with the indicator as
\* data, a new long_name and the coordinates of the zdr field
add_ml_indicator(fields) ==
    LET x == ml_indicator(fields)
    IN [k \in DOMAIN fields \cup {mli} |->
          IF k = mli THEN [data |-> x.data, mask |-> x.mask,
                           meta |-> "Melting layer indicator"]
          ELSE fields[k]]

AddMlIndicatorReads ==
    { <<MlIndicatorInputs.zh, "data">>, <<MlIndicatorInputs.zdr, "data">>,
      <<MlIndicatorInputs.rho, "data">>, <<zh, "meta">>, <<zdr, "meta">> }

MEDIAN_10 == [fn |-> "median_filter", par |-> <<10>>]
UNIFORM_30_1 == [fn |-> "uniform_filter", par |-> <<30, 1>>]
SAVGOL_60_3 == [fn |-> "savgol_filter", par |-> <<60, 3, 1>>]

\* line 117
MliFilterZdr ==
    /\ pc = 0
    /\ radar' = dev_filter_field(radar, zdr, MEDIAN_10)
    /\ pc' = 1
    /\ UNCHANGED <<ser, mf, panels, cur, raised, lastop, twin, reads, before, call>>

\* line 118
MliFilterRho ==
    /\ pc = 1
    /\ radar' = dev_filter_field(radar, rhohv, MEDIAN_10)
    /\ pc' = 2
    /\ UNCHANGED <<ser, mf, panels, cur, raised, lastop, twin, reads, before, call>>

\* line 119
MliAddIndicator ==
    /\ pc = 2
    /\ radar' = add_ml_indicator(radar)
    /\ reads' = reads \cup AddMlIndicatorReads
    /\ pc' = 3
    /\ UNCHANGED <<ser, mf, panels, cur, raised, lastop, twin, before, call>>

\* line 120
MliUniform ==
    /\ pc = 3
    /\ radar' = dev_filter_field(radar, mli, UNIFORM_30_1)
    /\ pc' = 4
    /\ UNCHANGED <<ser, mf, panels, cur, raised, lastop, twin, reads, before, call>>

\* line 121.  savgol_filter raises ValueError for rays shorter than the
\* window, and for an even window_length in the releases of scipy that
\* require an odd one (odd_only); filter_field then writes nothing and
\* add_mli ends with the exception.
MliSavgol ==
    /\ pc = 4
    /\ \E odd_only \in BOOLEAN :
         IF \/ DevFilterFieldRaises(radar, mli, SAVGOL_60_3)
            \/ odd_only /\ SAVGOL_60_3.par[1] % 2 = 0
         THEN raised' = "ValueError" /\ UNCHANGED radar
         ELSE radar' = dev_filter_field(radar, mli, SAVGOL_60_3) /\ UNCHANGED raised
    /\ pc' = 5
    /\ UNCHANGED <<ser, mf, panels, cur, lastop, twin, reads, before, call>>

\* rays of n gates: their data and their mask
Gates(n) == 0..(n - 1)

ZdrRays(n) ==
    { [data |-> [j \in Gates(n) |-> Num(IF j = n \div 2 THEN 9 ELSE 1)],
       mask |-> [j \in Gates(n) |-> FALSE]],
      [data |-> [j \in Gates(n) |-> Num(IF j < n \div 2 THEN 1 ELSE 2)],
       mask |-> [j \in Gates(n) |-> j = 0]] }

RhoRays(n) ==
    { [data |-> [j \in Gates(n) |-> Num(IF j = 1 THEN 70 ELSE 99)],
       mask |-> [j \in Gates(n) |-> FALSE]],
      [data |-> [j \in Gates(n) |-> Num(IF j % 2 = 0 THEN 95 ELSE 98)],
       mask |-> [j \in Gates(n) |-> j = 1]] }

ZhRays(n) ==
    { [data |-> [j \in Gates(n) |-> Num(IF j = 0 THEN 20 ELSE 35)],
       mask |-> [j \in Gates(n) |-> FALSE]],
      [data |-> [j \in Gates(n) |-> Num(IF j = 0 THEN 5 ELSE 40)],
       mask |-> [j \in Gates(n) |-> j = 0]] }

\* what an earlier run left in the filtered field
MliStaleField(n) ==
    LET r == [data |-> [j \in Gates(n) |-> Num(7)],
              mask |-> [j \in Gates(n) |-> j = 1]]
    IN FieldOfRays(r, r, r, "zdr")

InitMli ==
    /\ \E n \in {2, MliGates} :
         \E r0 \in ZdrRays(n) : \E r1 \in ZdrRays(n) :
         \E q \in RhoRays(n) : \E z \in ZhRays(n) :
         \E stale \in BOOLEAN :
            radar = [k \in {zh, zdr, rhohv}
                           \cup (IF stale THEN {zdr \o FLTRD_SUFFIX} ELSE {}) |->
                        CASE k = zh -> FieldOfRays(z, z, z, "zh")
                          [] k = zdr -> FieldOfRays(r0, r1, r0, "zdr")
                          [] k = rhohv -> FieldOfRays(q, q, q, "rhohv")
                          [] OTHER -> MliStaleField(n)]
    /\ twin = radar /\ before = [r |-> radar, t |-> radar]
    /\ call = NoCall /\ pc = 0 /\ reads = {}
    /\ ser = NoSeries /\ mf = NoMf /\ panels = <<>> /\ cur = 0 /\ raised = ""
    /\ lastop = NoOp

NextMli ==
    \/ MliFilterZdr
    \/ MliFilterRho
    \/ MliAddIndicator
    \/ MliUniform
    \/ MliSavgol

SpecMli == InitMli /\ [][NextMli]_vars

InitSeries ==
    /\ \E n \in 1..MaxLen : \E s \in [1..n -> SeriesValues] :
         \E f \in SeriesFilters :
            ser = [s |-> s, f |-> f, out |-> <<>>, done |-> FALSE]
    /\ mf = NoMf /\ panels = <<>> /\ cur = 0 /\ raised = "" /\ lastop = NoOp
    /\ radar = 0 /\ twin = 0 /\ pc = 0 /\ reads = {} /\ before = 0 /\ call = 0

NextSeries == SeriesCall

SpecSeries == InitSeries /\ [][NextSeries]_vars

(***************************************************************************)
(* Properties                                                              *)
(***************************************************************************)

\* C5: the result of filter_series_skipna has the index of s and is NaN at
\* exactly the positions where s is NaN, whether or not the rolling mean
\* filled the gap before the filter ran
C5_NaNPositionsKept ==
    ser.done =>
        /\ Len(ser.out) = Len(ser.s)
        /\ \A p \in 1..Len(ser.s) : RIsNaN(ser.out[p]) <=> RIsNaN(ser.s[p])

\* C5 witness: a profile with a gap that the rolling mean did fill (5 valid
\* samples in the window), smoothed by uniform_filter
C5_Witness ==
    /\ ser.done
    /\ ser.f.name = "uniform_filter"
    /\ \E p \in 1..Len(ser.s) :
          /\ RIsNaN(ser.s[p])
          /\ ~RIsNaN(SeriesFilled(ser.s)[p])
          /\ RIsNaN(ser.out[p])
    /\ \E p \in 1..Len(ser.s) : ~RIsNaN(ser.s[p]) /\ ser.out[p] # ser.s[p]

MfMissingKept ==
    \A i \in DOMAIN mf.df : \A j \in DOMAIN mf.df[i] :
        IsNaN(mf.df[i][j]) => IsNaN(mf.out[i][j])

\* C6 as stated: with fill=True, whatever param and nullmask are, every
\* cell missing in the input frame is missing in the output frame
C6_Original == (mf.done /\ mf.fill) => MfMissingKept

\* C6 amended: with fill=True and the nullmask omitted, or a nullmask that
\* marks every missing cell of the input, every cell missing in the input
\* frame is missing in the output frame
C6_MissingKeptUnderOwnMask ==
    (/\ mf.done
     /\ mf.fill
     /\ \/ ~mf.nullmask.given
        \/ \A i \in DOMAIN mf.df : \A j \in DOMAIN mf.df[i] :
              IsNaN(mf.df[i][j]) => mf.nullmask.mask[i][j])
    => MfMissingKept

\* C6 witness: a frame with a missing cell, filled before the filter ran
\* (param given), filtered under its own mask, with a value changed
C6_Witness ==
    /\ mf.done /\ mf.fill /\ mf.param # "" /\ ~mf.nullmask.given
    /\ \E i \in DOMAIN mf.df : \E j \in DOMAIN mf.df[i] : IsNaN(mf.df[i][j])
    /\ \E i \in DOMAIN mf.df : \E j \in DOMAIN mf.df[i] :
          ~IsNaN(mf.df[i][j]) /\ mf.out[i][j] # mf.df[i][j]

\* the field a panel filter found: the lower-case item of the panel passed
\* in, or the raw item it was just created from
PrevField(f) ==
    IF f \in DOMAIN lastop.snap THEN lastop.snap[f] ELSE lastop.snap[Upper(f)]

AfterGcMedian == lastop.op = "fltr_ground_clutter_median" /\ raised = ""
GcChanged(f, i, j) == panels[cur][f][i][j] # PrevField(f)[i][j]
GcExceeds(f, i, j) ==
    /\ ~IsNaN(PrevField(f)[i][j])
    /\ 25 * PrevField(f)[i][j] > 2 * GROUND_THRESHOLD(Upper(f))

\* C7 as stated: only cells whose original value exceeds the threshold are
\* replaced, none at or beyond crop_px, and a profile whose bin crop_px
\* exceeds the threshold is unchanged
C7_Original ==
    AfterGcMedian =>
        \A f \in {"zdr", "kdp"} : \A i \in DOMAIN PrevField(f) :
            \A j \in DOMAIN PrevField(f)[i] :
                GcChanged(f, i, j) =>
                    /\ GcExceeds(f, i, j)
                    /\ i < lastop.args[2]
                    /\ ~GcExceeds(f, lastop.args[2], j)

\* C7 amended: a replaced cell lies below crop_px in a profile whose bin
\* crop_px does not exceed the threshold, and either its own original value
\* or the original value of the profile's first bin exceeds the threshold
C7_ReplacedOnlyInClutterProfiles ==
    AfterGcMedian =>
        \A f \in {"zdr", "kdp"} : \A i \in DOMAIN PrevField(f) :
            \A j \in DOMAIN PrevField(f)[i] :
                GcChanged(f, i, j) =>
                    /\ GcExceeds(f, i, j) \/ GcExceeds(f, 0, j)
                    /\ i < lastop.args[2]
                    /\ ~GcExceeds(f, lastop.args[2], j)

\* C7 witness: a cell whose own value does not exceed the threshold was
\* replaced because the first bin of its profile does, while another
\* profile kept a value above the threshold
C7_Witness ==
    /\ AfterGcMedian
    /\ \E f \in {"zdr", "kdp"} : \E i \in DOMAIN PrevField(f) :
          \E j \in DOMAIN PrevField(f)[i] :
              GcChanged(f, i, j) /\ ~GcExceeds(f, i, j) /\ GcExceeds(f, 0, j)
    /\ \E f \in {"zdr", "kdp"} : \E i \in DOMAIN PrevField(f) :
          \E j \in DOMAIN PrevField(f)[i] :
              GcExceeds(f, i, j) /\ ~GcChanged(f, i, j)

AfterNonmet == lastop.op = "fltr_nonmet" /\ raised = ""
RhoBelow(i, j) ==
    ~IsNaN(lastop.snap["rho"][i][j]) /\ 25 * lastop.snap["rho"][i][j] < 2 * 80

\* C8: after fltr_nonmet, zh, zdr and kdp are missing where the filtered
\* rho is below 0.8 and keep their previous filtered value (the raw value
\* when the field was just created) everywhere else
C8_NonmetMasksLowRho ==
    AfterNonmet =>
        \A f \in {"zh", "zdr", "kdp"} : \A i \in DOMAIN PrevField(f) :
            \A j \in DOMAIN PrevField(f)[i] :
                panels[cur][f][i][j] =
                    IF RhoBelow(i, j) THEN NaN ELSE PrevField(f)[i][j]

\* C8 witness: a call that masked a valid cell and kept another
C8_Witness ==
    /\ AfterNonmet
    /\ \E i \in DOMAIN PrevField("zh") : \E j \in DOMAIN PrevField("zh")[i] :
          RhoBelow(i, j) /\ ~IsNaN(PrevField("zh")[i][j])
    /\ \E i \in DOMAIN PrevField("zdr") : \E j \in DOMAIN PrevField("zdr")[i] :
          ~RhoBelow(i, j) /\ ~IsNaN(panels[cur]["zdr"][i][j])

\* what create_filtered_fields_if_missing returns for the current panel
Created(keys) ==
    LET r == create_filtered_fields_if_missing(panels, cur, keys)
    IN r.heap[r.ref]

\* the lower-case fields a filter does not write
NotWritten(op) ==
    CASE op = "fltr_median" -> {}
      [] op = "fltr_nonmet" -> {"rho"}
      [] op \in {"fltr_ground_clutter_median", "fltr_ground_clutter"} -> {"zh", "rho"}
      [] OTHER -> {}

\* C9: the raw fields of every returned panel are those of the original
\* input, the panel passed to a filter is not modified, and
\* create_filtered_fields_if_missing keeps a lower-case field that exists
\* (it copies the raw field only when the lower-case one is absent), so a
\* filtered field a later filter does not write is still the earlier result
C9_RawKeptAndFilteredCarried ==
    /\ \A k \in 1..Len(panels) : \A key \in RawKeys :
          key \in DOMAIN panels[k] /\ panels[k][key] = panels[1][key]
    /\ lastop.op # "" => panels[lastop.inp] = lastop.snap
    /\ \A keys \in {MedianKeys, NonmetFields, GroundKeys} :
          /\ \A k \in DOMAIN panels[cur] : Created(keys)[k] = panels[cur][k]
          /\ \A n \in 1..Len(keys) :
                Lower(keys[n]) \notin DOMAIN panels[cur] =>
                    Created(keys)[Lower(keys[n])] = panels[cur][Upper(keys[n])]
    /\ (lastop.op # "" /\ raised = "") =>
          \A f \in NotWritten(lastop.op) \cap DOMAIN lastop.snap :
              panels[cur][f] = lastop.snap[f]

\* C9 witness: a second filter was given a panel whose filtered rho differs
\* from the raw RHO, and returned it with that filtered rho
C9_Witness ==
    /\ Len(panels) >= 3 /\ raised = ""
    /\ lastop.op \in {"fltr_nonmet", "fltr_ground_clutter_median"}
    /\ "rho" \in DOMAIN lastop.snap
    /\ lastop.snap["rho"] # lastop.snap["RHO"]
    /\ panels[cur]["rho"] = lastop.snap["rho"]
    /\ panels[cur]["zdr"] # panels[cur]["ZDR"]

\* the data of a field after the median filter of the given size ran over
\* each sweep of src on its own
SweepwiseMedian(fields, name, size) ==
    ConcatRows([k \in 1..Len(sweep_number) |->
                   MedianOfCells(get_field(fields, sweep_number[k], name).data, size)])

\* C1: in add_mli the indicator is not computed before the third statement;
\* when it has been computed, the median filter has written the filtered ZDR
\* and RHO fields from the raw fields, the data _add_ml_indicator read are
\* those of raw ZH and of the two filtered fields, and the indicator is the
\* combination of exactly these
C1_IndicatorFromFilteredOnly ==
    /\ pc < 3 => reads = {} /\ mli \notin DOMAIN radar
    /\ pc >= 2 =>
         \A k \in {zdr, rhohv} :
            /\ k \o FLTRD_SUFFIX \in DOMAIN radar
            /\ radar[k \o FLTRD_SUFFIX].data = SweepwiseMedian(before.r, k, 10)
    /\ pc >= 3 =>
         /\ {x[1] : x \in {y \in reads : y[2] = "data"}}
               = {zh, zdr \o FLTRD_SUFFIX, rhohv \o FLTRD_SUFFIX}
         /\ \A i \in DOMAIN radar[mli].data : \A j \in DOMAIN radar[mli].data[i] :
               LET c == radar[mli].data[i][j]
               IN /\ c.op = "ind"
                  /\ c.args[1].args = <<radar[zdr \o FLTRD_SUFFIX].data[i][j]>>
                  /\ c.args[2].args = <<radar[zh].data[i][j]>>
                  /\ c.args[3] = radar[rhohv \o FLTRD_SUFFIX].data[i][j]

\* the indicator has been computed and the median filter had changed ZDR
C1_Witness ==
    /\ pc = 3
    /\ reads # {}
    /\ radar[zdr \o FLTRD_SUFFIX].data # radar[zdr].data
    /\ radar[rhohv \o FLTRD_SUFFIX].data # radar[rhohv].data

\* C2: after add_mli the smoothed indicator is the polynomial filter applied
\* to the result of the moving average of the indicator
C2_SmoothingChained ==
    (pc = 5 /\ raised = "") =>
        LET averaged == dev_filter_field(radar, mli, UNIFORM_30_1)
            chained == dev_filter_field(averaged, mli \o FLTRD_SUFFIX, SAVGOL_60_3)
        IN radar[mli \o FLTRD_SUFFIX].data = chained[mli \o FLTRD_SUFFIX].data

\* a call of filter_field has returned
Returned == call.version # "" /\ ~call.raised

\* C3: the field filter_field stores has the shape of the input field and is
\* masked in every cell where the input field is masked
C3_InputMaskKept ==
    Returned =>
        LET in == before.r[call.name]
            out == radar[Written(call)]
        IN /\ DOMAIN out.data = DOMAIN in.data
           /\ \A i \in DOMAIN in.data :
                 /\ DOMAIN out.data[i] = DOMAIN in.data[i]
                 /\ \A j \in DOMAIN in.data[i] : in.mask[i][j] => out.mask[i][j]

\* C4: the rays filter_field stores for a sweep are the same in two volumes
\* whose input rays of that sweep are the same
C4_SweepsIndependent ==
    Returned =>
        \A k \in 1..Len(sweep_number) :
            LET n == sweep_number[k]
            IN get_field(before.r, n, call.name) = get_field(before.t, n, call.name)
                 => get_field(radar, n, Written(call)) = get_field(twin, n, Written(call))

\* name is some prefix followed by '_filtered'
Suffixed(name) == \E k \in 0..Len(name) : name = SubSeq(name, 1, k) \o FLTRD_SUFFIX

\* C10: a call without an output name leaves all fields but one as they
\* were; the one written is the input field when its name ends in
\* '_filtered', and no field is added then, and name + '_filtered' otherwise,
\* with the input field left as it was; what was in the written field is
\* replaced (by the sweepwise medians when the filter is the median filter
\* on the unfilled data)
C10_WritesOneField ==
    (Returned /\ call.field_name = <<>>) =>
        LET name == call.name
            out == IF Suffixed(name) THEN name ELSE name \o FLTRD_SUFFIX
        IN /\ DOMAIN radar = DOMAIN before.r \cup {out}
           /\ \A k \in DOMAIN before.r \ {out} : radar[k] = before.r[k]
           /\ Suffixed(name) => DOMAIN radar = DOMAIN before.r
           /\ radar[out].meta = before.r[name].meta
           /\ (call.f.fn = "median_filter" /\ ~call.filled /\ AllNum(before.r[name].data))
                 => radar[out].data = SweepwiseMedian(before.r, name, call.f.par[1])

\* a filtered field was given and was overwritten in place
C10_Witness ==
    /\ Returned /\ call.field_name = <<>>
    /\ call.name = zdr \o FLTRD_SUFFIX
    /\ radar[call.name] # before.r[call.name]
    /\ DOMAIN radar = {zdr, zdr \o FLTRD_SUFFIX}

====
